---- MODULE Spec2Model ----
(***************************************************************************)
(* Model of ai-memory-database/main.py: the CouchbaseMemory profile engine *)
(* (one JSON document per user in a key-value collection) and the tool     *)
(* functions that the agent calls on it.                                   *)
(*                                                                         *)
(* Encoding of JSON values: a dict is a function from strings (a record),  *)
(* a list is a sequence, a string is a string, a number is an integer.     *)
(* A top-level section whose value is not a dict is written NonDict(v).    *)
(* A timestamp (datetime.now()) is an integer number of clock ticks;       *)
(* isoformat() keeps the full resolution of the clock, strftime with       *)
(* '%Y%m%d_%H%M%S' keeps whole seconds only.                               *)
(***************************************************************************)
EXTENDS Integers, Sequences, FiniteSets, TLC

VARIABLES
    store,      \* the collection: document key -> document
    now,        \* the wall clock, in ticks
    user_id,    \* the "user_id" attribute set on the tool functions
    last,       \* the call that was made last, and what it returned
    calls       \* the calls under way in the processes that share the collection

vars == <<store, now, user_id, last, calls>>

(* ------------------------------ bounds -------------------------------- *)

\* the clock stops at MaxClock
MaxClock == 2
\* clock ticks per second: now \div TicksPerSecond is what strftime('%H%M%S') shows
TicksPerSecond == 2
\* add_task is not called once a document holds MaxTasks tasks
MaxTasks == 2
\* Spec follows the calls made on a collection up to the MaxCalls-th
MaxCalls == 2
\* the store can fail at any of the first MaxStoreCalls store calls of a call
MaxStoreCalls == 6

(* ------------------------------ dicts --------------------------------- *)

\* d[k] = v
DictSet(d, k, v) == [x \in DOMAIN d \cup {k} |-> IF x = k THEN v ELSE d[x]]

\* d.update(e)
DictUpdate(d, e) ==
    [x \in DOMAIN d \cup DOMAIN e |-> IF x \in DOMAIN e THEN e[x] ELSE d[x]]

\* d.get(k, default)
DictGet(d, k, default) == IF k \in DOMAIN d THEN d[k] ELSE default

\* a section value that is not a dict
NonDict(v) == [nondict |-> v]

\* isinstance(v, dict)
IsDict(v) == "nondict" \notin DOMAIN v

\* user_data is None, or {}
NoData == <<>>

\* lst.pop(i) leaves this list
RemoveAt(lst, i) == [j \in 1..(Len(lst) - 1) |-> IF j < i THEN lst[j] ELSE lst[j + 1]]

\* the number of occurrences of x in lst
Count(lst, x) == Cardinality({i \in DOMAIN lst : lst[i] = x})

(* ------------------------------ store --------------------------------- *)

USER_ID == "Chris"

Users == {"Chris"}

_doc_id(uid) == <<"user", uid>>

\* collection.get(doc_id) raises DocumentNotFoundException
NotFound(s, uid) == _doc_id(uid) \notin DOMAIN s

\* collection.get(doc_id).content_as[dict]
Get(s, uid) == s[_doc_id(uid)]

\* collection.upsert(doc_id, doc)
Upsert(s, uid, doc) ==
    [k \in DOMAIN s \cup {_doc_id(uid)} |-> IF k = _doc_id(uid) THEN doc ELSE s[k]]

(* ------------------------------ schema -------------------------------- *)

Sections == {"personal_info", "daily_routine", "habits_and_behaviors",
             "task_tracking", "productivity_insights", "preferences", "metadata"}

new_metadata(created, updated) ==
    [created_at |-> created, last_updated |-> updated, version |-> 1]

empty_task_tracking == [current_tasks |-> <<>>, completed_tasks |-> <<>>]

default_habit_streaks == [workout_streak_days |-> 0, task_completion_streak |-> 0]

default_productivity_insights ==
    [best_focus_times |-> <<>>,
     energy_levels |-> [morning |-> "", afternoon |-> "", evening |-> ""],
     habit_streaks |-> default_habit_streaks]

default_schema(created, updated) ==
    [personal_info |-> [name |-> "", age |-> 0, domain |-> ""],
     daily_routine |->
        [meal_timings |-> [breakfast |-> "", lunch |-> "", dinner |-> ""],
         working_hours |-> [start |-> "", end |-> "", timezone |-> ""],
         workout_preferences |-> <<>>],
     habits_and_behaviors |-> [procrastination_habits |-> <<>>, known_blockers |-> <<>>],
     task_tracking |-> empty_task_tracking,
     productivity_insights |-> default_productivity_insights,
     preferences |->
        [notifications |-> [reminder_frequency |-> "", preferred_channels |-> <<>>],
         motivation_style |-> ""],
     metadata |-> new_metadata(created, updated)]

\* doc["metadata"]["last_updated"] = t
\* a faulty stamp: last_updated is left as it is
touch_skip(doc, t) == doc

touch(doc, t) == DictSet(doc, "metadata", DictSet(doc["metadata"], "last_updated", t))

\* if "metadata" not in doc: doc["metadata"] = {...}
\* a faulty backfill: metadata is made anew on every call
ensure_metadata_anew(doc, created, updated) ==
    DictSet(doc, "metadata", new_metadata(created, updated))

ensure_metadata(doc, created, updated) ==
    IF "metadata" \notin DOMAIN doc
    THEN DictSet(doc, "metadata", new_metadata(created, updated))
    ELSE doc

(* ------------------------ CouchbaseMemory ----------------------------- *)
(* Every method is an operator from the collection s and the method's      *)
(* arguments to [store, ok, reads, writes]: the collection it leaves, the  *)
(* value it returns, and the collection.get / collection.upsert calls it   *)
(* makes. t is the sequence of the values datetime.now() returns at the    *)
(* method's calls of it, in the order of the source lines.                 *)

\* a faulty count: one get and one upsert at most are counted
Outcome_single(s, ok, reads, writes) ==
    [store |-> s, ok |-> ok,
     reads |-> IF reads > 1 THEN 1 ELSE reads,
     writes |-> IF writes > 1 THEN 1 ELSE writes]

Outcome(s, ok, reads, writes) ==
    [store |-> s, ok |-> ok, reads |-> reads, writes |-> writes]

\* default_schema of initialize_user_schema after lines 102-107
\* t[1]: line 96, t[2]: line 97, t[3]: line 107
\* a faulty seeding: the keys of a section of user_data are merged into the
\* default section
seeded_schema_deep(user_data, t) ==
    LET schema == default_schema(t[1], t[2])
    IN  touch([k \in DOMAIN schema \cup DOMAIN user_data |->
                  IF k \in DOMAIN schema /\ k \in DOMAIN user_data
                  THEN DictUpdate(schema[k], user_data[k])
                  ELSE IF k \in DOMAIN user_data THEN user_data[k] ELSE schema[k]],
              t[3])

\* a faulty schema: the new document has metadata only
seeded_schema_bare(user_data, t) == [metadata |-> new_metadata(t[1], t[3])]

seeded_schema(user_data, t) ==
    touch(DictUpdate(default_schema(t[1], t[2]), user_data), t[3])

\* a faulty backfill: the default sections replace the existing ones
backfill_overwrite(existing_doc, schema) == DictUpdate(existing_doc, schema)

\* for key, value in default_schema.items(): if key not in existing_doc: ...
backfill(existing_doc, schema) == DictUpdate(schema, existing_doc)

\* t[4]: line 116
initialize_user_schema(s, uid, user_data, t) ==
    IF NotFound(s, uid)
    THEN Outcome(Upsert(s, uid, seeded_schema(user_data, t)), TRUE, 1, 1)
    ELSE Outcome(
            Upsert(s, uid, touch(backfill(Get(s, uid), seeded_schema(user_data, t)), t[4])),
            TRUE, 1, 1)

\* a faulty merge: data always replaces the section
merge_section_replace(doc, section, data) == DictSet(doc, section, data)

\* a faulty merge: a nested dict of data is merged into the nested dict it meets
merge_section_deep(doc, section, data) ==
    IF section \in DOMAIN doc /\ IsDict(doc[section]) /\ IsDict(data)
    THEN LET nested == {"meal_timings", "working_hours", "energy_levels",
                        "habit_streaks"}
         IN  DictSet(doc, section,
                     [k \in DOMAIN doc[section] \cup DOMAIN data |->
                        IF k \notin DOMAIN data THEN doc[section][k]
                        ELSE IF k \in DOMAIN doc[section] /\ k \in nested
                             THEN DictUpdate(doc[section][k], data[k])
                             ELSE data[k]])
    ELSE DictSet(doc, section, data)

\* lines 145-151 of update_user_section
merge_section(doc, section, data) ==
    IF section \in DOMAIN doc /\ IsDict(doc[section]) /\ IsDict(data)
    THEN DictSet(doc, section, DictUpdate(doc[section], data))
    ELSE DictSet(doc, section, data)

\* t[1..4]: initialize_user_schema, t[5]: line 139, t[6]: line 140, t[7]: line 154
update_user_section(s, uid, section, data, t) ==
    LET missing == NotFound(s, uid)
        s1 == IF missing THEN initialize_user_schema(s, uid, NoData, SubSeq(t, 1, 4)).store
              ELSE s
        doc == ensure_metadata(Get(s1, uid), t[5], t[6])
        merged == touch(merge_section(doc, section, data), t[7])
    IN  Outcome(Upsert(s1, uid, merged), TRUE,
                IF missing THEN 3 ELSE 1, IF missing THEN 2 ELSE 1)

\* get_user_section(user_id, section) with a section name
\* a faulty read: a user without a document is given the default section
get_user_section_default(s, uid, section) ==
    IF NotFound(s, uid) THEN default_schema(0, 0)[section]
    ELSE DictGet(Get(s, uid), section, <<>>)

get_user_section(s, uid, section) ==
    IF NotFound(s, uid) THEN <<>> ELSE DictGet(Get(s, uid), section, <<>>)

\* get_user_section(user_id) without a section name
get_user_document(s, uid) == IF NotFound(s, uid) THEN <<>> ELSE Get(s, uid)

\* a faulty backfill: task_tracking is made anew on every call
ensure_current_tasks_anew(doc) == DictSet(doc, "task_tracking", empty_task_tracking)

\* lines 182-185 of _add_task
ensure_current_tasks(doc) ==
    LET d1 == IF "task_tracking" \notin DOMAIN doc
              THEN DictSet(doc, "task_tracking", empty_task_tracking) ELSE doc
    IN  IF "current_tasks" \notin DOMAIN d1["task_tracking"]
        THEN DictSet(d1, "task_tracking", DictSet(d1["task_tracking"], "current_tasks", <<>>))
        ELSE d1

\* lines 213-218 of _complete_task
ensure_task_lists(doc) ==
    LET d1 == ensure_current_tasks(doc)
    IN  IF "completed_tasks" \notin DOMAIN d1["task_tracking"]
        THEN DictSet(d1, "task_tracking", DictSet(d1["task_tracking"], "completed_tasks", <<>>))
        ELSE d1

\* doc["task_tracking"][name] = lst
set_tasks(doc, name, lst) ==
    DictSet(doc, "task_tracking", DictSet(doc["task_tracking"], name, lst))

\* t[1..4]: initialize_user_schema, t[5]: line 190, t[6]: line 191,
\* t[7]: line 196, t[8]: line 198
_add_task(s, uid, task_data, t) ==
    LET missing == NotFound(s, uid)
        s1 == IF missing THEN initialize_user_schema(s, uid, NoData, SubSeq(t, 1, 4)).store
              ELSE s
        doc == ensure_metadata(ensure_current_tasks(Get(s1, uid)), t[5], t[6])
        task == DictSet(task_data, "last_activity", t[7])
        added == set_tasks(doc, "current_tasks",
                           Append(doc["task_tracking"]["current_tasks"], task))
    IN  Outcome(Upsert(s1, uid, touch(added, t[8])), TRUE,
                IF missing THEN 3 ELSE 1, IF missing THEN 2 ELSE 1)

\* the indexes of the tasks of lst whose task_id is tid (task.get("task_id") == task_id)
matches(lst, tid) ==
    {i \in DOMAIN lst : "task_id" \in DOMAIN lst[i] /\ lst[i]["task_id"] = tid}

\* the index the loop of lines 224-227 stops at
first_match(lst, tid) == CHOOSE i \in matches(lst, tid) : \A j \in matches(lst, tid) : i <= j

\* a faulty move: the completed task is left in current_tasks
pop_task_keep(lst, i) == lst

\* current_tasks after current_tasks.pop(i)
pop_task(lst, i) == RemoveAt(lst, i)

\* a faulty completion: completed_on is set, the status stays as it was
mark_completed_pending(task, t) == DictSet(task, "completed_on", t)

\* lines 239-240: the task as it is appended to completed_tasks
mark_completed(task, t) == DictSet(DictSet(task, "completed_on", t), "status", "completed")

\* t[1]: line 233, t[2]: line 234, t[3]: line 239, t[4]: line 242
\* a faulty return: the document read is written back when no task matches
no_match_upsert(s, uid, doc) == Outcome(Upsert(s, uid, doc), FALSE, 1, 1)

\* line 248: return False, after one read and no write
no_match(s, uid, doc) == Outcome(s, FALSE, 1, 0)

_complete_task(s, uid, tid, t) ==
    IF NotFound(s, uid) THEN Outcome(s, FALSE, 1, 0)
    ELSE
        LET doc == ensure_task_lists(Get(s, uid))
            current_tasks == doc["task_tracking"]["current_tasks"]
        IN  IF matches(current_tasks, tid) = {} THEN no_match(s, uid, doc)
            ELSE
                LET i == first_match(current_tasks, tid)
                    popped == set_tasks(doc, "current_tasks", pop_task(current_tasks, i))
                    d1 == ensure_metadata(popped, t[1], t[2])
                    moved == set_tasks(d1, "completed_tasks",
                                 Append(d1["task_tracking"]["completed_tasks"],
                                        mark_completed(current_tasks[i], t[3])))
                IN  Outcome(Upsert(s, uid, touch(moved, t[4])), TRUE, 1, 1)

\* a faulty backfill: habit_streaks start from the defaults at every call
ensure_habit_streaks_anew(doc) ==
    LET d1 == IF "productivity_insights" \notin DOMAIN doc
              THEN DictSet(doc, "productivity_insights", default_productivity_insights)
              ELSE doc
    IN  DictSet(d1, "productivity_insights",
                DictSet(d1["productivity_insights"], "habit_streaks",
                        default_habit_streaks))

\* lines 264-274 of update_habit_streaks
ensure_habit_streaks(doc) ==
    LET d1 == IF "productivity_insights" \notin DOMAIN doc
              THEN DictSet(doc, "productivity_insights", default_productivity_insights)
              ELSE doc
    IN  IF "habit_streaks" \notin DOMAIN d1["productivity_insights"]
        THEN DictSet(d1, "productivity_insights",
                     DictSet(d1["productivity_insights"], "habit_streaks",
                             default_habit_streaks))
        ELSE d1

\* t[1..4]: initialize_user_schema, t[5]: line 279, t[6]: line 280, t[7]: line 285
update_habit_streaks(s, uid, streaks, t) ==
    LET missing == NotFound(s, uid)
        s1 == IF missing THEN initialize_user_schema(s, uid, NoData, SubSeq(t, 1, 4)).store
              ELSE s
        doc == ensure_metadata(ensure_habit_streaks(Get(s1, uid)), t[5], t[6])
        insights == doc["productivity_insights"]
        updated == DictSet(doc, "productivity_insights",
                       DictSet(insights, "habit_streaks",
                               DictUpdate(insights["habit_streaks"], streaks)))
    IN  Outcome(Upsert(s1, uid, touch(updated, t[7])), TRUE,
                IF missing THEN 3 ELSE 1, IF missing THEN 2 ELSE 1)

(* ----------------------------- the clock ------------------------------ *)

\* The values of k successive datetime.now() calls of one handler: the handler
\* starts at some time t0 from now on, and the clock ticks at most once while
\* the handler runs, before its j-th call of datetime.now().
Reads(k) ==
    {[i \in 1..k |-> IF i >= j /\ t0 < MaxClock THEN t0 + 1 ELSE t0] :
        t0 \in now..MaxClock, j \in 1..(k + 1)}

\* f"task_{datetime.now().strftime('%Y%m%d_%H%M%S')}" at clock value t
task_id_at(t) == <<"task", t \div TicksPerSecond>>

(* -------------------------- the tool functions ------------------------ *)

\* the task ids complete_task is called with
TaskIds == {task_id_at(t) : t \in (0 - TicksPerSecond)..MaxClock}

Descriptions == {"Write report"}
Priorities == {"high"}
DueDates == {"", " ", "2025-07-06"}

\* not (due_date and due_date.strip())
IsBlank(str) == str \in {"", " "}

\* the personal_updates update_personal_info is called with
PersonalUpdates ==
    {[age |-> 30], [name |-> "Alex"], [name |-> "", age |-> 0]}

Categories == {"procrastination_habits", "known_blockers", "bogus_category"}
Items == {"doom scrolling"}

\* the streaks update_habit_streaks is called with
Streaks == {[workout_streak_days |-> 5]}

\* what a call leaves in last; ok is the engine method's return value, n the
\* number of calls made so far (counted up to MaxCalls)
Returned(op, uid, arg, ok, ret, reads, writes) ==
    last' = [op |-> op, user_id |-> uid, arg |-> arg, ok |-> ok, ret |-> ret,
             reads |-> reads, writes |-> writes,
             n |-> IF last.n < MaxCalls THEN last.n + 1 ELSE last.n]
    /\ UNCHANGED calls

\* a faulty result: the message is left out
Result_bare(status) == [status |-> status]

Result(status) == [status |-> status, message |-> "message"]

\* call_agent_async, lines 536-544: the user_id attribute of every tool function
call_agent_async(uid) ==
    /\ user_id' = uid
    /\ Returned("call_agent_async", uid, <<>>, "none", <<>>, 0, 0)
    /\ UNCHANGED <<store, now>>

initialize_user_profile ==
    \E t \in Reads(4) :
        LET out == initialize_user_schema(store, user_id, NoData, t)
        IN  /\ store' = out.store
            /\ now' = t[4]
            /\ Returned("initialize_user_profile", user_id, <<>>, "True",
                        Result("success"), out.reads, out.writes)
            /\ UNCHANGED user_id

\* lines 325-333 of update_personal_info
personal_info_of(personal_updates) ==
    LET kept == {k \in DOMAIN personal_updates \cap {"name", "age", "domain"} :
                    IF k = "age" THEN personal_updates[k] # 0
                    ELSE personal_updates[k] # ""}
    IN  [k \in kept |-> personal_updates[k]]

update_personal_info(personal_updates) ==
    LET personal_info == personal_info_of(personal_updates)
    IN  IF DOMAIN personal_info # {}
        THEN \E t \in Reads(7) :
                LET out == update_user_section(store, user_id, "personal_info",
                                               personal_info, t)
                IN  /\ store' = out.store
                    /\ now' = t[7]
                    /\ Returned("update_personal_info", user_id, personal_updates, "True",
                                Result("success"), out.reads, out.writes)
                    /\ UNCHANGED user_id
        ELSE /\ Returned("update_personal_info", user_id, personal_updates, "none",
                         Result("error"), 0, 0)
             /\ UNCHANGED <<store, now, user_id>>

\* the tasks of the user's document, 0 when there is none
TaskCount(s, uid) ==
    IF NotFound(s, uid) \/ "task_tracking" \notin DOMAIN Get(s, uid) THEN 0
    ELSE LET tt == Get(s, uid)["task_tracking"]
         IN  Len(DictGet(tt, "current_tasks", <<>>)) + Len(DictGet(tt, "completed_tasks", <<>>))

\* t[1]: line 370, t[2]: line 377, t[3..10]: _add_task
add_task(task_description, priority, due_date) ==
    /\ TaskCount(store, user_id) < MaxTasks
    /\ \E t \in Reads(10) :
        LET task_id == task_id_at(t[1])
            task == [task_id |-> task_id, description |-> task_description,
                     priority |-> priority, status |-> "pending", created_at |-> t[2]]
            task_data == IF IsBlank(due_date) THEN task
                         ELSE DictSet(task, "due_date", due_date)
            out == _add_task(store, user_id, task_data, SubSeq(t, 3, 10))
        IN  /\ store' = out.store
            /\ now' = t[10]
            /\ Returned("add_task", user_id, <<>>, "True",
                        DictSet(Result("success"), "task_id", task_id),
                        out.reads, out.writes)
            /\ UNCHANGED user_id

\* the value _complete_task returns, which no clock reading changes
completes(s, uid, task_id) == _complete_task(s, uid, task_id, <<0, 0, 0, 0>>).ok

\* datetime.now() is called only when a task is found (lines 229-242)
complete_task(task_id) ==
    IF completes(store, user_id, task_id)
    THEN \E t \in Reads(4) :
            LET out == _complete_task(store, user_id, task_id, t)
            IN  /\ store' = out.store
                /\ now' = t[4]
                /\ Returned("complete_task", user_id, [task_id |-> task_id], "True",
                            Result("success"), out.reads, out.writes)
                /\ UNCHANGED user_id
    ELSE LET out == _complete_task(store, user_id, task_id, <<now, now, now, now>>)
         IN  /\ store' = out.store
             /\ Returned("complete_task", user_id, [task_id |-> task_id], "False",
                         Result("error"), out.reads, out.writes)
             /\ UNCHANGED <<now, user_id>>

get_current_tasks ==
    LET tasks == get_user_section(store, user_id, "task_tracking")
        current_tasks == DictGet(tasks, "current_tasks", <<>>)
    IN  /\ Returned("get_current_tasks", user_id, <<>>, "none",
                    [status |-> "success", current_tasks |-> current_tasks,
                     count |-> Len(current_tasks)], 1, 0)
        /\ UNCHANGED <<store, now, user_id>>

\* a faulty check: the item is appended whether it is in the list or not
item_missing_always(habits_data, category, item) == TRUE

\* line 444: item not in habits_data[category]
item_missing(habits_data, category, item) == Count(habits_data[category], item) = 0

\* a faulty check: every category passes
valid_category_any(category) == TRUE

\* line 437: category in ["procrastination_habits", "known_blockers"]
valid_category(category) == category \in {"procrastination_habits", "known_blockers"}

add_habit_or_blocker(category, item) ==
    IF ~valid_category(category)
    THEN /\ Returned("add_habit_or_blocker", user_id,
                     [category |-> category, item |-> item], "none", Result("error"), 0, 0)
         /\ UNCHANGED <<store, now, user_id>>
    ELSE
        LET got == get_user_section(store, user_id, "habits_and_behaviors")
            habits_data == IF category \notin DOMAIN got THEN DictSet(got, category, <<>>)
                           ELSE got
        IN  IF item_missing(habits_data, category, item)
            THEN \E t \in Reads(7) :
                    LET appended == DictSet(habits_data, category,
                                            Append(habits_data[category], item))
                        out == update_user_section(store, user_id, "habits_and_behaviors",
                                                   appended, t)
                    IN  /\ store' = out.store
                        /\ now' = t[7]
                        /\ Returned("add_habit_or_blocker", user_id,
                                    [category |-> category, item |-> item], "True",
                                    Result("success"), 1 + out.reads, out.writes)
                        /\ UNCHANGED user_id
            ELSE /\ Returned("add_habit_or_blocker", user_id,
                             [category |-> category, item |-> item], "none",
                             Result("info"), 1, 0)
                 /\ UNCHANGED <<store, now, user_id>>

\* CouchbaseMemory.update_habit_streaks, called for the user uid
call_update_habit_streaks(uid, streaks) ==
    \E t \in Reads(7) :
        LET out == update_habit_streaks(store, uid, streaks, t)
        IN  /\ store' = out.store
            /\ now' = t[7]
            /\ Returned("update_habit_streaks", uid, streaks, "True", <<>>,
                        out.reads, out.writes)
            /\ UNCHANGED user_id


\* the routine_updates update_daily_routine is called with
RoutineUpdates == {[meal_timings |-> [breakfast |-> "08:00"]], [workout_preferences |-> <<>>]}

\* the insights_updates update_productivity_insights is called with
InsightsUpdates == {[habit_streaks |-> [workout_streak_days |-> 5]], [best_focus_times |-> <<>>]}

\* the keys among wanted whose value in updates is true for Python: a dict or a
\* list that is not empty (lines 350-355, 418-423)
truthy_part(updates, wanted) ==
    [k \in {x \in DOMAIN updates \cap wanted : DOMAIN updates[x] # {}} |-> updates[k]]

\* update_daily_routine and update_productivity_insights: the same lines, for
\* the section they name (_update_productivity_insights is update_user_section)
update_section_tool(op, section, wanted, updates) ==
    LET data == truthy_part(updates, wanted)
    IN  IF DOMAIN data # {}
        THEN \E t \in Reads(7) :
                LET out == update_user_section(store, user_id, section, data, t)
                IN  /\ store' = out.store
                    /\ now' = t[7]
                    /\ Returned(op, user_id, updates, "True", Result("success"),
                                out.reads, out.writes)
                    /\ UNCHANGED user_id
        ELSE /\ Returned(op, user_id, updates, "none", Result("error"), 0, 0)
             /\ UNCHANGED <<store, now, user_id>>

update_daily_routine(routine_updates) ==
    update_section_tool("update_daily_routine", "daily_routine",
                        {"meal_timings", "working_hours", "workout_preferences"},
                        routine_updates)

update_productivity_insights(insights_updates) ==
    update_section_tool("update_productivity_insights", "productivity_insights",
                        {"best_focus_times", "energy_levels", "habit_streaks"},
                        insights_updates)

\* the sections get_user_profile is called with
ProfileSections == {"", " ", "task_tracking", "habits_and_behaviors"}

get_user_profile(section) ==
    /\ Returned("get_user_profile", user_id, [section |-> section], "none",
                IF ~IsBlank(section)
                THEN [status |-> "success", section |-> section,
                      data |-> get_user_section(store, user_id, section)]
                ELSE [status |-> "success",
                      profile |-> get_user_document(store, user_id)],
                1, 0)
    /\ UNCHANGED <<store, now, user_id>>

\* the sections and data CouchbaseMemory.update_user_section is called with by
\* a caller other than the tool functions
SectionUpdates ==
    {<<"habits_and_behaviors",
       [procrastination_habits |-> <<"doom scrolling", "doom scrolling">>]>>,
     <<"metadata", [version |-> 2, last_updated |-> 0 - TicksPerSecond]>>,
     <<"preferences", [motivation_style |-> "data-driven"]>>}

\* the user_data initialize_user_schema is called with: sections of a profile
\* as create_example_user_profile has them, and the metadata of a profile
\* that was made elsewhere
Seeds ==
    {[personal_info |-> [name |-> "Shubham Dalvi", age |-> 28, domain |-> "Data Engineering"],
      productivity_insights |-> [best_focus_times |-> <<"10:00-12:00", "15:00-17:00">>]],
     [metadata |-> [created_at |-> 0 - TicksPerSecond, last_updated |-> 0 - TicksPerSecond,
                    version |-> 3]]}

\* CouchbaseMemory.initialize_user_schema, called with user_data for the user uid
call_initialize_user_schema(uid, user_data) ==
    \E t \in Reads(4) :
        LET out == initialize_user_schema(store, uid, user_data, t)
        IN  /\ store' = out.store
            /\ now' = t[4]
            /\ Returned("initialize_user_schema", uid, user_data, "True", <<>>,
                        out.reads, out.writes)
            /\ UNCHANGED user_id

\* CouchbaseMemory.update_user_section, called for the user uid
call_update_user_section(uid, section, data) ==
    \E t \in Reads(7) :
        LET out == update_user_section(store, uid, section, data, t)
        IN  /\ store' = out.store
            /\ now' = t[7]
            /\ Returned("update_user_section", uid, [section |-> section, data |-> data],
                        "True", <<>>, out.reads, out.writes)
            /\ UNCHANGED user_id

(* ----------------------- store calls that fail ------------------------ *)
(* collection.get raises DocumentNotFoundException when there is no        *)
(* document; get and upsert raise another CouchbaseException when the      *)
(* store cannot be reached. down is the number, among the store calls a    *)
(* tool call issues, of the one at which the store cannot be reached       *)
(* (0: none). A method returns Done(...) or raises: Raise(s, reads,        *)
(* writes) has the collection and the store calls issued up to the raise.  *)

Done(out) == [store |-> out.store, ok |-> out.ok, reads |-> out.reads,
              writes |-> out.writes, raised |-> FALSE]

Raise(s, reads, writes) ==
    [store |-> s, ok |-> FALSE, reads |-> reads, writes |-> writes, raised |-> TRUE]

\* what collection.get(doc_id) raises
get_exception(s, uid, unreachable) ==
    IF unreachable THEN "CouchbaseException"
    ELSE IF NotFound(s, uid) THEN "DocumentNotFoundException"
    ELSE "none"

\* a faulty handler: except Exception
caught_any(exception) == exception # "none"

\* except DocumentNotFoundException: lines 119, 131, 168, 177, 209, 259
caught(exception) == exception = "DocumentNotFoundException"

\* initialize_user_schema: the get of line 111 and the upsert of line 117 are
\* inside the try, the upsert of line 121 is in the handler
initialize_user_schema_failing(s, uid, user_data, t, down) ==
    LET exception == get_exception(s, uid, down = 1)
        created == Upsert(s, uid, seeded_schema(user_data, t))
    IN  IF exception = "none"
        THEN IF down = 2
             THEN IF caught("CouchbaseException")
                  THEN Done(Outcome(created, TRUE, 1, 2))
                  ELSE Raise(s, 1, 1)
             ELSE Done(initialize_user_schema(s, uid, user_data, t))
        ELSE IF caught(exception)
             THEN IF down = 2 THEN Raise(s, 1, 1)
                  ELSE Done(Outcome(created, TRUE, 1, 1))
             ELSE Raise(s, 1, 0)

\* the initialize_user_schema(user_id) of lines 133, 178 and 260
initialized(s, uid, t, down) ==
    initialize_user_schema_failing(s, uid, NoData, SubSeq(t, 1, 4), down - 1)

\* lines 129-134, 175-179 and 257-261, and the upsert of the method: found
\* is the collection after that upsert when the first get returns the
\* document, created the one when it is made after initialize_user_schema
auto_initialized(s, uid, t, down, found, created) ==
    LET exception == get_exception(s, uid, down = 1)
    IN  IF exception = "none"
        THEN IF down = 2 THEN Raise(s, 1, 1)
             ELSE Done(Outcome(found, TRUE, 1, 1))
        ELSE IF caught(exception)
             THEN LET init == initialized(s, uid, t, down)
                      issued == 1 + init.reads + init.writes
                  IN  IF init.raised
                      THEN Raise(init.store, 1 + init.reads, init.writes)
                      ELSE IF down = issued + 1
                      THEN Raise(init.store, init.reads + 2, init.writes)
                      ELSE IF down = issued + 2
                      THEN Raise(init.store, init.reads + 2, init.writes + 1)
                      ELSE Done(Outcome(created, TRUE,
                                        init.reads + 2, init.writes + 1))
             ELSE Raise(s, 1, 0)

update_user_section_failing(s, uid, section, data, t, down) ==
    auto_initialized(s, uid, t, down,
                     update_user_section(s, uid, section, data, t).store,
                     update_user_section(initialized(s, uid, t, down).store, uid, section, data, t).store)

_add_task_failing(s, uid, task_data, t, down) ==
    auto_initialized(s, uid, t, down,
                     _add_task(s, uid, task_data, t).store,
                     _add_task(initialized(s, uid, t, down).store, uid, task_data, t).store)

update_habit_streaks_failing(s, uid, streaks, t, down) ==
    auto_initialized(s, uid, t, down,
                     update_habit_streaks(s, uid, streaks, t).store,
                     update_habit_streaks(initialized(s, uid, t, down).store, uid, streaks, t).store)

_complete_task_failing(s, uid, tid, t, down) ==
    LET exception == get_exception(s, uid, down = 1)
        out == _complete_task(s, uid, tid, t)
    IN  IF exception = "none"
        THEN IF out.writes = 1 /\ down = 2 THEN Raise(s, 1, 1) ELSE Done(out)
        ELSE IF caught(exception) THEN Done(Outcome(s, FALSE, 1, 0))
             ELSE Raise(s, 1, 0)

\* get_user_section: the value it returns, in ok
get_user_section_failing(s, uid, section, down) ==
    LET exception == get_exception(s, uid, down = 1)
    IN  IF exception = "none"
        THEN Done(Outcome(s, DictGet(Get(s, uid), section, <<>>), 1, 0))
        ELSE IF caught(exception) THEN Done(Outcome(s, <<>>, 1, 0))
             ELSE Raise(s, 1, 0)

\* a tool function whose call of the method has ended in out: the exception
\* goes through the tool function, which has no handler, to its caller
through(op, arg, down, out, t, ok, ret) ==
    /\ store' = out.store
    /\ now' = t
    /\ Returned(op, user_id, [arg |-> arg, down |-> down],
                IF out.raised THEN "raised" ELSE ok,
                IF out.raised THEN [exception |-> "CouchbaseException"] ELSE ret,
                out.reads, out.writes)
    /\ UNCHANGED user_id

failing_initialize_user_profile(down) ==
    \E t \in Reads(4) :
        through("initialize_user_profile", <<>>, down,
                initialize_user_schema_failing(store, user_id, NoData, t, down),
                t[4], "True", Result("success"))

failing_update_personal_info(personal_updates, down) ==
    /\ DOMAIN personal_info_of(personal_updates) # {}
    /\ \E t \in Reads(7) :
        through("update_personal_info", personal_updates, down,
                update_user_section_failing(store, user_id, "personal_info",
                                            personal_info_of(personal_updates), t, down),
                t[7], "True", Result("success"))

failing_add_task(task_description, priority, down) ==
    /\ TaskCount(store, user_id) < MaxTasks
    /\ \E t \in Reads(10) :
        LET task_id == task_id_at(t[1])
            task_data == [task_id |-> task_id, description |-> task_description,
                          priority |-> priority, status |-> "pending",
                          created_at |-> t[2]]
        IN  through("add_task", <<>>, down,
                    _add_task_failing(store, user_id, task_data, SubSeq(t, 3, 10), down),
                    t[10], "True", DictSet(Result("success"), "task_id", task_id))

failing_complete_task(task_id, down) ==
    \E t \in Reads(4) :
        LET out == _complete_task_failing(store, user_id, task_id, t, down)
        IN  through("complete_task", [task_id |-> task_id], down, out,
                    IF out.writes = 1 THEN t[4] ELSE now,
                    IF out.ok THEN "True" ELSE "False",
                    IF out.ok THEN Result("success") ELSE Result("error"))

failing_get_user_profile(section, down) ==
    LET out == get_user_section_failing(store, user_id, section, down)
    IN  through("get_user_profile", [section |-> section], down, out, now, "none",
                [status |-> "success", section |-> section, data |-> out.ok])

failing_add_habit_or_blocker(category, item, down) ==
    LET got == get_user_section_failing(store, user_id, "habits_and_behaviors", down)
        habits_data == IF category \notin DOMAIN got.ok THEN DictSet(got.ok, category, <<>>)
                       ELSE got.ok
    IN  /\ valid_category(category)
        /\ IF got.raised
           THEN through("add_habit_or_blocker", [category |-> category, item |-> item],
                        down, got, now, "none", <<>>)
           ELSE IF item_missing(habits_data, category, item)
           THEN \E t \in Reads(7) :
                 LET appended == DictSet(habits_data, category,
                                         Append(habits_data[category], item))
                     out == update_user_section_failing(store, user_id,
                               "habits_and_behaviors", appended, t, down - 1)
                 IN  through("add_habit_or_blocker",
                             [category |-> category, item |-> item], down,
                             [out EXCEPT !.reads = out.reads + 1],
                             t[7], "True", Result("success"))
           ELSE through("add_habit_or_blocker", [category |-> category, item |-> item],
                        down, got, now, "none", Result("info"))

failing_update_habit_streaks(streaks, down) ==
    \E t \in Reads(7) :
        through("update_habit_streaks", streaks, down,
                update_habit_streaks_failing(store, user_id, streaks, t, down),
                t[7], "True", <<>>)

(* ----------------------- calls that interleave ------------------------ *)
(* Two processes run the program on one collection. A call of              *)
(* update_user_section or _add_task is a sequence of store calls: get;     *)
(* when the document is missing, the get and the upsert of                 *)
(* initialize_user_schema and a second get; then the upsert of the changed *)
(* document. Each store call is one step, and the steps of the two         *)
(* processes interleave. seen is the collection as the process's last get  *)
(* returned it: what a method computes between two store calls, it         *)
(* computes from seen.                                                     *)

\* the processes that share the collection
Procs == {"A", "B"}

idle == [pc |-> "idle", method |-> "none", arg |-> <<>>, seen |-> <<>>, ret |-> <<>>]

\* the task description each process adds
RaceDescriptions == [p \in Procs |-> IF p = "A" THEN "Write report" ELSE "Call the bank"]

\* the part of the collection s a get of uid's document returns
got(s, uid) == [k \in DOMAIN s \cap {_doc_id(uid)} |-> s[k]]

\* a faulty write: the change is made to the document the collection holds at
\* the time of the upsert
base_current(p) == got(store, USER_ID)

\* the document a call changes is the one its get returned (lines 130, 176)
base(p) == calls[p].seen

\* the document the upsert of lines 156 and 200 writes, with the clock readings t
\* of lines 139-154 and 185-198
written(p, t) ==
    LET tt == [i \in 1..8 |-> IF i <= 4 THEN t[1]
                              ELSE IF i - 4 <= Len(t) THEN t[i - 4] ELSE t[Len(t)]]
        out == IF calls[p].method = "_add_task"
               THEN _add_task(base(p), USER_ID, calls[p].arg, tt)
               ELSE update_user_section(base(p), USER_ID, "personal_info", calls[p].arg,
                                        SubSeq(tt, 1, 7))
    IN  Get(out.store, USER_ID)

\* the get of line 130 or 176, at the start of the call, the clock at t
race_get(p, method, arg, t) ==
    /\ calls[p].pc = "idle"
    /\ now' = t
    /\ calls' = [calls EXCEPT ![p] =
                    [pc |-> IF NotFound(store, USER_ID) THEN "init_get" ELSE "upsert",
                     method |-> method, arg |-> arg, seen |-> got(store, USER_ID),
                     ret |-> <<>>]]
    /\ UNCHANGED <<store, user_id, last>>

\* add_task up to the get of _add_task: lines 370-377 and 176
race_add_task(p) ==
    \E t \in Reads(2) :
        race_get(p, "_add_task",
                 [task_id |-> task_id_at(t[1]), description |-> RaceDescriptions[p],
                  priority |-> "high", status |-> "pending", created_at |-> t[2]],
                 t[2])

\* update_personal_info up to the get of update_user_section: line 130
race_update_personal_info(p) ==
    \E personal_updates \in {u \in PersonalUpdates : DOMAIN personal_info_of(u) # {}} :
        race_get(p, "update_user_section", personal_info_of(personal_updates), now)

\* the get of initialize_user_schema, line 111
race_init_get(p) ==
    /\ calls[p].pc = "init_get"
    /\ calls' = [calls EXCEPT ![p].pc = "init_upsert", ![p].seen = got(store, USER_ID)]
    /\ UNCHANGED <<store, now, user_id, last>>

\* the upsert of initialize_user_schema, line 108 or 117
race_init_upsert(p) ==
    /\ calls[p].pc = "init_upsert"
    /\ \E t \in Reads(4) :
        /\ store' = Upsert(store, USER_ID,
                           Get(initialize_user_schema(base(p), USER_ID, NoData, t).store,
                               USER_ID))
        /\ now' = t[4]
    /\ calls' = [calls EXCEPT ![p].pc = "get2"]
    /\ UNCHANGED <<user_id, last>>

\* the get after initialize_user_schema, line 134 or 179
race_get2(p) ==
    /\ calls[p].pc = "get2"
    /\ calls' = [calls EXCEPT ![p].pc = "upsert", ![p].seen = got(store, USER_ID)]
    /\ UNCHANGED <<store, now, user_id, last>>

\* the upsert of line 156 or 200, and the return of the tool function
race_upsert(p) ==
    /\ calls[p].pc = "upsert"
    /\ \E t \in Reads(IF calls[p].method = "_add_task" THEN 4 ELSE 3) :
        /\ store' = Upsert(store, USER_ID, written(p, t))
        /\ now' = t[Len(t)]
    /\ calls' = [calls EXCEPT
                    ![p].pc = "done",
                    ![p].ret = IF calls[p].method = "_add_task"
                               THEN DictSet(Result("success"), "task_id",
                                            calls[p].arg["task_id"])
                               ELSE Result("success")]
    /\ UNCHANGED <<user_id, last>>

(* --------------------- agent runs that interleave --------------------- *)
(* call_agent_async sets the user_id attribute of the nine tool functions  *)
(* (lines 536-544) and then awaits the events of runner.run_async (line    *)
(* 546). The tool functions are module-level objects, so the attribute is  *)
(* one value for every run on the event loop: user_id. A tool function is  *)
(* called by the runner between two awaits of the run and reads the        *)
(* attribute then (getattr(add_task, "user_id", USER_ID)); it does not      *)
(* await, so one tool function runs at a time. calls[p].pc is "awaiting"   *)
(* while run p waits for the model and "tool" while the runner executes a  *)
(* function call of run p.                                                 *)

\* the user_id each run of call_agent_async is called with
RunUser == [p \in Procs |-> IF p = "A" THEN USER_ID ELSE "Dana"]

\* lines 531-546: the setattr calls, up to the first await of runner.run_async
agent_start(p) ==
    /\ calls[p].pc = "idle"
    /\ \A q \in Procs : calls[q].pc # "tool"
    /\ calls' = [calls EXCEPT ![p] = [idle EXCEPT !.pc = "awaiting",
                                                  !.method = "call_agent_async",
                                                  !.arg = RunUser[p]]]
    /\ user_id' = RunUser[p]
    /\ UNCHANGED <<store, now, last>>

\* line 546: the run is resumed with a function call of the model
agent_resume(p) ==
    /\ calls[p].pc = "awaiting"
    /\ \A q \in Procs : calls[q].pc # "tool"
    /\ calls' = [calls EXCEPT ![p].pc = "tool"]
    /\ UNCHANGED <<store, now, user_id, last>>

\* the tool function the runner calls for run p, while fewer than MaxCalls
\* tool functions have been called
agent_tool(p) ==
    /\ calls[p].pc = "tool"
    /\ last.n < MaxCalls
    /\ \/ \E d \in Descriptions, priority \in Priorities : add_task(d, priority, "")
       \/ get_current_tasks
       \/ \E personal_updates \in {[age |-> 30]} : update_personal_info(personal_updates)

\* line 546: the function response goes to the model, the run awaits again
agent_yield(p) ==
    /\ calls[p].pc = "tool"
    /\ calls' = [calls EXCEPT ![p].pc = "awaiting"]
    /\ UNCHANGED <<store, now, user_id, last>>

\* lines 549-554: the final response, or no response
agent_end(p) ==
    /\ calls[p].pc = "awaiting"
    /\ calls' = [calls EXCEPT ![p] = idle]
    /\ UNCHANGED <<store, now, user_id, last>>

(* --------------------------- the state machine ------------------------ *)

\* documents written before this program's schema: sections are missing
PastTime == 0 - TicksPerSecond

\* only a personal_info, and that a string
legacy_profile == [personal_info |-> NonDict("Sam")]

\* a task list from the second before the model's clock starts, no completed_tasks
legacy_tasks ==
    [task_tracking |->
        [current_tasks |-> <<[task_id |-> task_id_at(PastTime), description |-> "Old",
                              status |-> "pending"]>>],
     metadata |-> [created_at |-> PastTime, last_updated |-> PastTime, version |-> 1]]

LegacyDocs == {legacy_profile, legacy_tasks}

Init ==
    /\ \E present \in SUBSET Users :
        store \in [{_doc_id(u) : u \in present} -> LegacyDocs]
    /\ now = 0
    /\ user_id = USER_ID
    /\ last = [op |-> "none", user_id |-> USER_ID, arg |-> <<>>, ok |-> "none",
               ret |-> <<>>, reads |-> 0, writes |-> 0, n |-> 0]
    /\ calls = [p \in Procs |-> idle]

\* The sections of a document are independent of each other: the task lifecycle
\* and the profile sections are explored apart, each from every initial document.

\* the task lifecycle
NextTasks ==
    \/ \E d \in Descriptions, p \in Priorities, due \in DueDates : add_task(d, p, due)
    \/ \E task_id \in TaskIds : complete_task(task_id)
    \/ get_current_tasks

\* the profile sections
NextProfile ==
    \/ initialize_user_profile
    \/ \E personal_updates \in PersonalUpdates : update_personal_info(personal_updates)
    \/ \E category \in Categories, item \in Items : add_habit_or_blocker(category, item)
    \/ \E uid \in Users, streaks \in Streaks : call_update_habit_streaks(uid, streaks)

\* the call A, on a collection that has seen fewer than max calls
InBudget(max, A) == last.n < max /\ A

\* every call, on a collection that has seen fewer than MaxCalls calls;
\* add_task without a due date (NextTasks has the due dates)
Next ==
    \/ \E d \in Descriptions, p \in Priorities :
            InBudget(MaxCalls, add_task(d, p, ""))
    \/ \E task_id \in TaskIds : InBudget(MaxCalls, complete_task(task_id))
    \/ InBudget(MaxCalls, get_current_tasks)
    \/ InBudget(MaxCalls, initialize_user_profile)
    \/ \E personal_updates \in PersonalUpdates :
            InBudget(MaxCalls, update_personal_info(personal_updates))
    \/ \E category \in Categories, item \in Items :
            InBudget(MaxCalls, add_habit_or_blocker(category, item))
    \/ \E uid \in Users, streaks \in Streaks :
            InBudget(MaxCalls, call_update_habit_streaks(uid, streaks))
    \/ \E uid \in Users : InBudget(MaxCalls, call_agent_async(uid))
    \/ \E routine_updates \in RoutineUpdates :
            InBudget(MaxCalls, update_daily_routine(routine_updates))
    \/ \E insights_updates \in InsightsUpdates :
            InBudget(MaxCalls, update_productivity_insights(insights_updates))
    \/ \E section \in ProfileSections : InBudget(MaxCalls, get_user_profile(section))
    \/ \E uid \in Users, u \in SectionUpdates :
            InBudget(MaxCalls, call_update_user_section(uid, u[1], u[2]))
    \/ \E uid \in Users, user_data \in Seeds :
            InBudget(MaxCalls, call_initialize_user_schema(uid, user_data))

Spec == Init /\ [][Next]_vars

\* add_task and update_personal_info, one call in each process, a store call
\* at a time
NextRace ==
    \E p \in Procs :
        \/ race_add_task(p)
        \/ race_update_personal_info(p)
        \/ race_init_get(p)
        \/ race_init_upsert(p)
        \/ race_get2(p)
        \/ race_upsert(p)

SpecRace == Init /\ [][NextRace]_vars

\* the calls that reach the store, the store out of reach at the down-th store
\* call of each (0: at none); as each call is made for every down, on a
\* collection that has seen fewer than MaxCalls - 1 calls
NextFailing ==
    \E down \in 0..MaxStoreCalls :
        \/ InBudget(MaxCalls - 1, failing_initialize_user_profile(down))
        \/ \E personal_updates \in PersonalUpdates :
                InBudget(MaxCalls - 1, failing_update_personal_info(personal_updates, down))
        \/ \E task_description \in Descriptions, priority \in Priorities :
                InBudget(MaxCalls - 1, failing_add_task(task_description, priority, down))
        \/ \E task_id \in TaskIds :
                InBudget(MaxCalls - 1, failing_complete_task(task_id, down))
        \/ \E section \in {x \in ProfileSections : ~IsBlank(x)} :
                InBudget(MaxCalls - 1, failing_get_user_profile(section, down))
        \/ \E category \in Categories, item \in Items :
                InBudget(MaxCalls - 1, failing_add_habit_or_blocker(category, item, down))
        \/ \E streaks \in Streaks :
                InBudget(MaxCalls - 1, failing_update_habit_streaks(streaks, down))

SpecFailing == Init /\ [][NextFailing]_vars

\* two runs of call_agent_async on one event loop, for two users
NextAgents ==
    \E p \in Procs :
        \/ agent_start(p)
        \/ agent_resume(p)
        \/ agent_tool(p)
        \/ agent_yield(p)
        \/ agent_end(p)

SpecAgents == Init /\ [][NextAgents]_vars

SpecTasks == Init /\ [][NextTasks]_vars

SpecProfile == Init /\ [][NextProfile]_vars

(* ------------------------------ claims -------------------------------- *)

\* the document of the user of the last call
LastDoc == Get(store, last.user_id)

\* task_tracking.current_tasks of uid's document in s, empty when there is none
CurrentOf(s, uid) ==
    IF NotFound(s, uid) THEN <<>>
    ELSE DictGet(DictGet(Get(s, uid), "task_tracking", <<>>), "current_tasks", <<>>)

\* task_tracking.completed_tasks of uid's document in s, empty when there is none
CompletedOf(s, uid) ==
    IF NotFound(s, uid) THEN <<>>
    ELSE DictGet(DictGet(Get(s, uid), "task_tracking", <<>>), "completed_tasks", <<>>)

\* the task_ids of the tasks of lst
IdsOf(lst) == {lst[i]["task_id"] : i \in {j \in DOMAIN lst : "task_id" \in DOMAIN lst[j]}}

\* C1: complete_task(id) on a document whose current_tasks holds a task with
\* task_id = id returns true; in the written document one task with that id is
\* gone from current_tasks, the other tasks keep their order, and the task is the
\* last element of completed_tasks, with status "completed" and completed_on set.
C1_CompleteMovesTask ==
    [][(/\ last'.op = "complete_task"
        /\ last'.arg["task_id"] \in IdsOf(CurrentOf(store, last'.user_id)))
       => LET uid == last'.user_id
              tid == last'.arg["task_id"]
              cur == CurrentOf(store, uid)
              done == CompletedOf(store', uid)
          IN  /\ last'.ok = "True"
              /\ last'.writes = 1
              /\ \E i \in DOMAIN cur :
                    /\ cur[i]["task_id"] = tid
                    /\ CurrentOf(store', uid) = RemoveAt(cur, i)
                    /\ done[Len(done)]["description"] = cur[i]["description"]
              /\ Len(done) = Len(CompletedOf(store, uid)) + 1
              /\ SubSeq(done, 1, Len(done) - 1) = CompletedOf(store, uid)
              /\ done[Len(done)]["task_id"] = tid
              /\ done[Len(done)]["status"] = "completed"
              /\ "completed_on" \in DOMAIN done[Len(done)]
              /\ done[Len(done)]["completed_on"] \in now..now'
      ]_vars

\* a complete_task call has moved a task to the end of completed_tasks
C1_Witness ==
    /\ last.op = "complete_task"
    /\ last.ok = "True"
    /\ Len(CompletedOf(store, last.user_id)) > 0
    /\ LET done == CompletedOf(store, last.user_id)
       IN  /\ done[Len(done)]["task_id"] = last.arg["task_id"]
           /\ done[Len(done)]["status"] = "completed"
    /\ last.arg["task_id"] \notin IdsOf(CurrentOf(store, last.user_id))

\* C2: no task_id is both in current_tasks and in completed_tasks of a document.
C2_NoTaskInBothLists ==
    \A uid \in Users :
        IdsOf(CurrentOf(store, uid)) \cap IdsOf(CompletedOf(store, uid)) = {}

\* the section of uid's document in s that update_user_section merges data into
\* (the default one when update_user_section first has to create the document)
SectionBefore(s, uid, section) ==
    IF NotFound(s, uid) THEN default_schema(0, 0)[section] ELSE Get(s, uid)[section]

\* C3: update_user_section on a section that is a dict, with data that is a dict,
\* leaves a section in which every key of data has data's value and every other
\* key of the old section has its old value; updating personal_info with
\* {age: 30} and then with {name: "Alex"} leaves both name "Alex" and age 30.
C3_ShallowMerge ==
    [][/\ (/\ last'.op = "update_personal_info"
           /\ last'.ok = "True"
           /\ (NotFound(store, last'.user_id)
               \/ "personal_info" \in DOMAIN Get(store, last'.user_id))
           /\ IsDict(SectionBefore(store, last'.user_id, "personal_info")))
          => LET old == SectionBefore(store, last'.user_id, "personal_info")
                 data == personal_info_of(last'.arg)
                 new == Get(store', last'.user_id)["personal_info"]
             IN  /\ DOMAIN new = DOMAIN old \cup DOMAIN data
                 /\ \A k \in DOMAIN data : new[k] = data[k]
                 /\ \A k \in DOMAIN old \ DOMAIN data : new[k] = old[k]
       /\ (/\ last'.op = "add_habit_or_blocker"
           /\ last'.ok = "True"
           /\ ~NotFound(store, last'.user_id)
           /\ "habits_and_behaviors" \in DOMAIN Get(store, last'.user_id))
          => LET old == Get(store, last'.user_id)["habits_and_behaviors"]
                 category == last'.arg["category"]
                 new == Get(store', last'.user_id)["habits_and_behaviors"]
             IN  /\ DOMAIN new = DOMAIN old \cup {category}
                 /\ new[category] = Append(DictGet(old, category, <<>>), last'.arg["item"])
                 /\ \A k \in DOMAIN old \ {category} : new[k] = old[k]
       /\ (/\ last.op = "update_personal_info"
           /\ last.arg = [age |-> 30]
           /\ last'.op = "update_personal_info"
           /\ last'.arg = [name |-> "Alex"])
          => LET new == Get(store', last'.user_id)["personal_info"]
             IN  /\ {"name", "age"} \subseteq DOMAIN new
                 /\ new["name"] = "Alex"
                 /\ new["age"] = 30
      ]_vars

\* personal_info holds the name of the last update and the age of an earlier one
C3_Witness ==
    /\ last.op = "update_personal_info"
    /\ last.arg = [name |-> "Alex"]
    /\ {"name", "age"} \subseteq DOMAIN LastDoc["personal_info"]
    /\ LastDoc["personal_info"]["name"] = "Alex"
    /\ LastDoc["personal_info"]["age"] = 30

\* C4: initialize_user_schema(u) on an existing document adds the canonical
\* sections that are missing, with their default values, leaves every section that
\* was there as it was, but for metadata.last_updated, which it sets to the time
\* of the call, and writes the document.
C4_InitializeBackfills ==
    [][(/\ last'.op = "initialize_user_profile"
        /\ ~NotFound(store, last'.user_id))
       => LET old == Get(store, last'.user_id)
              new == Get(store', last'.user_id)
          IN  /\ last'.writes = 1
              /\ DOMAIN new = DOMAIN old \cup Sections
              /\ \A k \in DOMAIN old \ {"metadata"} : new[k] = old[k]
              /\ \A k \in Sections \ (DOMAIN old \cup {"metadata"}) :
                    new[k] = default_schema(0, 0)[k]
              /\ new["metadata"]["last_updated"] \in now..now'
              /\ new["metadata"]["version"] =
                    IF "metadata" \in DOMAIN old THEN old["metadata"]["version"] ELSE 1
              /\ IF "metadata" \in DOMAIN old
                 THEN new["metadata"]["created_at"] = old["metadata"]["created_at"]
                 ELSE new["metadata"]["created_at"] \in now..now'
      ]_vars

\* initialize_user_profile has completed a document that had personal_info only
C4_Witness ==
    /\ last.op = "initialize_user_profile"
    /\ DOMAIN LastDoc = Sections
    /\ LastDoc["personal_info"] = legacy_profile["personal_info"]
    /\ LastDoc["task_tracking"] = empty_task_tracking

\* C5: initialize_user_schema(u) without a document of u writes one with the seven
\* canonical sections, metadata.version 1, and created_at equal to last_updated.
C5_FreshDocument ==
    [][(/\ last'.op = "initialize_user_profile"
        /\ NotFound(store, last'.user_id))
       => LET new == Get(store', last'.user_id)
          IN  /\ DOMAIN new = Sections
              /\ new["metadata"]["version"] = 1
              /\ new["metadata"]["created_at"] = new["metadata"]["last_updated"]
      ]_vars

\* C6: the document an operation has written holds every canonical section.
C6_WrittenDocumentComplete ==
    last.writes > 0 => Sections \subseteq DOMAIN LastDoc

\* C7: add_task puts one new task at the end of current_tasks, pending and with
\* the task_id it returns; get_current_tasks right after the first add_task of a
\* user returns that one task.
C7_AddTaskAppends ==
    [][/\ last'.op = "add_task"
          => LET cur == CurrentOf(store, last'.user_id)
                 new == CurrentOf(store', last'.user_id)
             IN  /\ last'.ret["status"] = "success"
                 /\ Len(new) = Len(cur) + 1
                 /\ SubSeq(new, 1, Len(cur)) = cur
                 /\ new[Len(new)]["status"] = "pending"
                 /\ new[Len(new)]["task_id"] = last'.ret["task_id"]
                 /\ new[Len(new)]["last_activity"] \in now..now'
                 /\ CompletedOf(store', last'.user_id) = CompletedOf(store, last'.user_id)
       /\ (/\ last.op = "add_task"
           /\ Len(CurrentOf(store, last.user_id)) = 1
           /\ last'.op = "get_current_tasks"
           /\ last'.user_id = last.user_id)
          => /\ last'.ret["count"] = 1
             /\ Len(last'.ret["current_tasks"]) = 1
             /\ last'.ret["current_tasks"][1]["status"] = "pending"
             /\ last'.ret["current_tasks"][1]["task_id"] = last.ret["task_id"]
      ]_vars

\* get_current_tasks has returned the one pending task of the user
C7_Witness ==
    /\ last.op = "get_current_tasks"
    /\ last.ret["count"] = 1
    /\ last.ret["current_tasks"][1]["status"] = "pending"
    /\ last.ret["current_tasks"][1]["task_id"] \in {task_id_at(t) : t \in 0..MaxClock}
    /\ CompletedOf(store, last.user_id) = <<>>

\* C8: the task_id add_task generates is the task_id of no task that is already
\* in current_tasks.
C8_FreshTaskId ==
    [][last'.op = "add_task"
       => last'.ret["task_id"] \notin IdsOf(CurrentOf(store, last'.user_id))]_vars

\* C9: complete_task(id) right after a complete_task(id) that returned true
\* returns false and leaves completed_tasks as it is.
C9_SecondCompleteFails ==
    [][(/\ last.op = "complete_task"
        /\ last.ok = "True"
        /\ last'.op = "complete_task"
        /\ last'.user_id = last.user_id
        /\ last'.arg = last.arg)
       => /\ last'.ok = "False"
          /\ CompletedOf(store', last'.user_id) = CompletedOf(store, last'.user_id)
      ]_vars

\* the list add_habit_or_blocker(category, item) appends to, in uid's document
HabitList(s, uid, category) ==
    IF NotFound(s, uid) THEN <<>>
    ELSE DictGet(DictGet(Get(s, uid), "habits_and_behaviors", <<>>), category, <<>>)

\* C10: add_habit_or_blocker(category, item) right after the same call, with a
\* valid category, returns status "info", writes nothing, and leaves the item
\* once in the list.
C10_SecondAddIsNoOp ==
    [][(/\ last.op = "add_habit_or_blocker"
        /\ last'.op = "add_habit_or_blocker"
        /\ last'.user_id = last.user_id
        /\ last'.arg = last.arg
        /\ last'.arg["category"] \in {"procrastination_habits", "known_blockers"})
       => /\ last'.ret["status"] = "info"
          /\ last'.writes = 0
          /\ store' = store
          /\ Count(HabitList(store', last'.user_id, last'.arg["category"]),
                   last'.arg["item"]) = 1
      ]_vars

\* add_habit_or_blocker has found the item in the list and left it there once
C10_Witness ==
    /\ last.op = "add_habit_or_blocker"
    /\ last.ret["status"] = "info"
    /\ last.writes = 0
    /\ Count(HabitList(store, last.user_id, last.arg["category"]), last.arg["item"]) = 1

\* lst holds no element twice
NoDuplicates(lst) == \A i, j \in DOMAIN lst : lst[i] = lst[j] => i = j

\* the two lists add_habit_or_blocker appends to
HabitCategories == {"procrastination_habits", "known_blockers"}

C12_InvalidCategoryRejected ==
    [][(/\ last'.op = "add_habit_or_blocker"
        /\ last'.arg["category"] \notin HabitCategories)
       => /\ last'.ret["status"] = "error"
          /\ last'.reads = 0
          /\ last'.writes = 0
          /\ store' = store
      ]_vars

\* add_habit_or_blocker has rejected a category
C12_Witness ==
    /\ last.op = "add_habit_or_blocker"
    /\ last.arg["category"] \notin HabitCategories
    /\ last.ret["status"] = "error"
    /\ \A uid \in Users : HabitList(store, uid, last.arg["category"]) = <<>>

\* C13: get_user_section for a user without a document returns an empty dict
\* and no error, and creates and writes nothing; for a document without the
\* section it returns an empty dict too, and for one with the section, the
\* section. get_user_profile and get_current_tasks return what it gives them.
C13_ReadOfMissingIsEmpty ==
    [][/\ last'.op = "get_user_profile"
          => LET uid == last'.user_id
                 section == last'.arg["section"]
             IN  /\ store' = store
                 /\ last'.writes = 0
                 /\ last'.ret["status"] = "success"
                 /\ IF IsBlank(section)
                    THEN IF NotFound(store, uid)
                         THEN DOMAIN last'.ret["profile"] = {}
                         ELSE last'.ret["profile"] = Get(store, uid)
                    ELSE IF NotFound(store, uid) \/ section \notin DOMAIN Get(store, uid)
                         THEN DOMAIN last'.ret["data"] = {}
                         ELSE last'.ret["data"] = Get(store, uid)[section]
       /\ (last'.op = "get_current_tasks" /\ NotFound(store, last'.user_id))
          => /\ store' = store
             /\ last'.writes = 0
             /\ last'.ret["status"] = "success"
             /\ last'.ret["current_tasks"] = <<>>
             /\ last'.ret["count"] = 0
      ]_vars

\* get_user_profile has returned an empty section for a user without a document
C13_Witness ==
    /\ last.op = "get_user_profile"
    /\ last.arg["section"] = "task_tracking"
    /\ NotFound(store, last.user_id)
    /\ last.ret["status"] = "success"
    /\ DOMAIN last.ret["data"] = {}

\* C14: complete_task(id) returns true exactly when current_tasks held a task
\* with task_id = id, and then has moved one task to completed_tasks; when the
\* document is missing or no task matches it returns false, writes nothing and
\* leaves the document as it was.
C14_CompleteTrueOnlyOnMatch ==
    [][last'.op = "complete_task"
       => LET uid == last'.user_id
              tid == last'.arg["task_id"]
          IN  /\ last'.ok \in {"True", "False"}
              /\ last'.ok = "True" <=> tid \in IdsOf(CurrentOf(store, uid))
              /\ last'.ok = "True"
                    => /\ last'.writes = 1
                       /\ Len(CurrentOf(store', uid)) = Len(CurrentOf(store, uid)) - 1
                       /\ Len(CompletedOf(store', uid)) = Len(CompletedOf(store, uid)) + 1
                       /\ tid \in IdsOf(CompletedOf(store', uid))
              /\ last'.ok = "False"
                    => /\ last'.writes = 0
                       /\ store' = store
      ]_vars

\* complete_task has returned false for a document that held another task
C14_Witness ==
    /\ last.op = "complete_task"
    /\ last.ok = "False"
    /\ last.writes = 0
    /\ ~NotFound(store, last.user_id)
    /\ CurrentOf(store, last.user_id) # <<>>
    /\ last.arg["task_id"] \notin IdsOf(CurrentOf(store, last.user_id))

\* uid has a document in s, and the document has metadata
HasMetadata(s, uid) == ~NotFound(s, uid) /\ "metadata" \in DOMAIN Get(s, uid)

\* C15, as stated: no call changes metadata.created_at or metadata.version of a
\* document that has them.
C15_CreationMetadataKept ==
    [][\A uid \in Users :
        HasMetadata(store, uid)
        => /\ HasMetadata(store', uid)
           /\ Get(store', uid)["metadata"]["created_at"]
                 = Get(store, uid)["metadata"]["created_at"]
           /\ Get(store', uid)["metadata"]["version"]
                 = Get(store, uid)["metadata"]["version"]
      ]_vars

\* C15: no call changes metadata.created_at or metadata.version of a document
\* that has them, unless it is an update_user_section call on the section
\* metadata whose data names created_at or version.
C15_CreationMetadataKeptByOthers ==
    [][\A uid \in Users :
        (/\ HasMetadata(store, uid)
         /\ ~(/\ last'.op = "update_user_section"
              /\ last'.arg["section"] = "metadata"
              /\ DOMAIN last'.arg["data"] \cap {"created_at", "version"} # {}))
        => /\ HasMetadata(store', uid)
           /\ Get(store', uid)["metadata"]["created_at"]
                 = Get(store, uid)["metadata"]["created_at"]
           /\ Get(store', uid)["metadata"]["version"]
                 = Get(store, uid)["metadata"]["version"]
      ]_vars

\* a second call has written a document whose metadata an earlier call of this
\* run created, at an earlier time
C15_Witness ==
    /\ last.n = 2
    /\ last.writes > 0
    /\ last.op \notin {"update_user_section", "initialize_user_profile"}
    /\ LastDoc["metadata"]["version"] = 1
    /\ LastDoc["metadata"]["created_at"] >= 0
    /\ LastDoc["metadata"]["created_at"] < now
    /\ LastDoc["metadata"]["last_updated"] = now

\* C16: a call that writes a document leaves its metadata.last_updated at a
\* clock reading of that call, not before the clock value the call started at;
\* no call lowers metadata.last_updated.
C16_LastUpdatedIsCallTime ==
    [][\A uid \in Users :
        /\ (last'.writes > 0 /\ last'.user_id = uid)
           => /\ HasMetadata(store', uid)
              /\ Get(store', uid)["metadata"]["last_updated"] \in now..now'
        /\ HasMetadata(store, uid)
           => /\ HasMetadata(store', uid)
              /\ Get(store', uid)["metadata"]["last_updated"]
                    >= Get(store, uid)["metadata"]["last_updated"]
      ]_vars

\* update_user_section has been handed an old last_updated for the section
\* metadata, after the clock had moved, and the document has the time of the call
C16_Witness ==
    /\ last.op = "update_user_section"
    /\ last.arg["section"] = "metadata"
    /\ "last_updated" \in DOMAIN last.arg["data"]
    /\ now > 0
    /\ LastDoc["metadata"]["last_updated"] = now

\* the calls that end in update_user_section, _add_task, _complete_task or
\* update_habit_streaks
MutatingOps ==
    {"update_personal_info", "update_daily_routine", "update_productivity_insights",
     "update_user_section", "add_task", "complete_task", "update_habit_streaks",
     "add_habit_or_blocker"}

\* C18, as stated: a mutating call that reaches the collection for a user
\* without a document creates the document and does not return status "error".
C18_MissingDocumentInitialized ==
    [][(/\ last'.op \in MutatingOps
        /\ last'.reads > 0
        /\ NotFound(store, last'.user_id))
       => /\ ~NotFound(store', last'.user_id)
          /\ "status" \in DOMAIN last'.ret => last'.ret["status"] # "error"
      ]_vars

\* C18: a mutating call other than complete_task that reaches the collection
\* for a user without a document writes a document with every canonical
\* section and its own change in it, and returns no error; complete_task
\* returns status "error" and creates no document.
C18_MissingDocumentInitializedButComplete ==
    [][(/\ last'.op \in MutatingOps
        /\ last'.reads > 0
        /\ NotFound(store, last'.user_id))
       => LET uid == last'.user_id
          IN  IF last'.op = "complete_task"
              THEN /\ last'.ok = "False"
                   /\ last'.ret["status"] = "error"
                   /\ last'.writes = 0
                   /\ store' = store
              ELSE /\ ~NotFound(store', uid)
                   /\ Sections \subseteq DOMAIN Get(store', uid)
                   /\ last'.writes = 2
                   /\ "status" \in DOMAIN last'.ret => last'.ret["status"] = "success"
                   /\ last'.op = "add_task"
                         => Len(CurrentOf(store', uid)) = 1
                   /\ last'.op = "add_habit_or_blocker"
                         => HabitList(store', uid, last'.arg["category"])
                               = <<last'.arg["item"]>>
                   /\ last'.op = "update_habit_streaks"
                         => \A k \in DOMAIN last'.arg :
                               Get(store', uid)["productivity_insights"]["habit_streaks"][k]
                                  = last'.arg[k]
                   /\ last'.op = "update_user_section"
                         => \A k \in DOMAIN last'.arg["data"] \ {"last_updated"} :
                               Get(store', uid)[last'.arg["section"]][k]
                                  = last'.arg["data"][k]
      ]_vars

\* update_habit_streaks has created the document of a user who had none
C18_Witness ==
    /\ last.op = "update_habit_streaks"
    /\ last.n = 1
    /\ last.writes = 2
    /\ DOMAIN LastDoc = Sections
    /\ LastDoc["productivity_insights"]["habit_streaks"]["workout_streak_days"] = 5

\* the tool functions of productivity_agent
ToolOps ==
    {"initialize_user_profile", "update_personal_info", "update_daily_routine",
     "add_task", "complete_task", "get_current_tasks", "update_productivity_insights",
     "add_habit_or_blocker", "get_user_profile"}

C17_LastWriteWins ==
    [][\A p \in Procs :
        (calls[p].pc = "upsert" /\ calls'[p].pc = "done")
        => LET read == calls[p].seen
               old == Get(read, USER_ID)
               new == Get(store', USER_ID)
           IN  /\ calls'[p].ret["status"] = "success"
               /\ \A k \in DOMAIN old \ {"metadata", "task_tracking", "personal_info"} :
                     new[k] = old[k]
               /\ CompletedOf(store', USER_ID) = CompletedOf(read, USER_ID)
               /\ IF calls[p].method = "_add_task"
                  THEN /\ Len(CurrentOf(store', USER_ID)) = Len(CurrentOf(read, USER_ID)) + 1
                       /\ SubSeq(CurrentOf(store', USER_ID), 1, Len(CurrentOf(read, USER_ID)))
                             = CurrentOf(read, USER_ID)
                       /\ "personal_info" \in DOMAIN old
                             => new["personal_info"] = old["personal_info"]
                  ELSE /\ CurrentOf(store', USER_ID) = CurrentOf(read, USER_ID)
                       /\ \A k \in DOMAIN calls[p].arg :
                             new["personal_info"][k] = calls[p].arg[k]
      ]_vars

\* both processes have added a task with success, and the task of one of them
\* is not in the document
C17_Witness ==
    /\ \A p \in Procs :
          /\ calls[p].pc = "done"
          /\ calls[p].method = "_add_task"
          /\ calls[p].ret["status"] = "success"
    /\ \E p \in Procs :
          \A i \in DOMAIN CurrentOf(store, USER_ID) :
              CurrentOf(store, USER_ID)[i]["description"] # RaceDescriptions[p]

\* the store calls the call that was made last issues when the store can be
\* reached at each of them
StoreCallsOf(s, op, arg) ==
    LET uid == USER_ID
        missing == NotFound(s, uid)
    IN  CASE op = "initialize_user_profile" -> 2
          [] op \in {"update_personal_info", "add_task", "update_habit_streaks"} ->
                IF missing THEN 5 ELSE 2
          [] op = "complete_task" ->
                IF arg["task_id"] \in IdsOf(CurrentOf(s, uid)) THEN 2 ELSE 1
          [] op = "get_user_profile" -> 1
          [] op = "add_habit_or_blocker" ->
                IF Count(HabitList(s, uid, arg["category"]), arg["item"]) > 0 THEN 1
                ELSE IF missing THEN 6 ELSE 3

\* C20: a call during which a store call fails with another exception than
\* DocumentNotFoundException issues no store call after that one and ends in
\* the exception: it raises exactly when the failing store call is one it
\* issues, the failing call is then its last, and the calls before it have had
\* their effect and no other.
C20_FailurePropagates ==
    [][last'.op # last.op \/ last' # last =>
        LET down == last'.arg["down"]
            issues == StoreCallsOf(store, last'.op, last'.arg["arg"])
        IN  /\ last'.ok = "raised" <=> down \in 1..issues
            /\ last'.ok = "raised"
                  => /\ last'.reads + last'.writes = down
                     /\ last'.ret = [exception |-> "CouchbaseException"]
                     /\ \/ store' = store
                        \/ /\ NotFound(store, USER_ID)
                           /\ down > 3
                           /\ DOMAIN Get(store', USER_ID) = Sections
            /\ last'.ok # "raised" => last'.reads + last'.writes = issues
      ]_vars

\* update_personal_info for a user without a document has raised at the get
\* that follows initialize_user_schema, which has written the new document
C20_Witness ==
    /\ last.op = "update_personal_info"
    /\ last.ok = "raised"
    /\ last.arg["down"] = 4
    /\ last.reads = 3
    /\ last.writes = 1
    /\ DOMAIN LastDoc = Sections
    /\ LastDoc["personal_info"] = default_schema(0, 0)["personal_info"]

\* C21, as stated: initialize_user_schema(u, user_data) without a document of u
\* writes one in which every section user_data names is user_data's value, and
\* every other canonical section the default one.
C21_SeedReplacesSections ==
    [][(/\ last'.op = "initialize_user_schema"
        /\ NotFound(store, last'.user_id))
       => LET user_data == last'.arg
              new == Get(store', last'.user_id)
          IN  /\ DOMAIN new = Sections \cup DOMAIN user_data
              /\ \A k \in DOMAIN user_data : new[k] = user_data[k]
              /\ \A k \in Sections \ (DOMAIN user_data \cup {"metadata"}) :
                    new[k] = default_schema(0, 0)[k]
              /\ "metadata" \notin DOMAIN user_data
                    => /\ new["metadata"]["version"] = 1
                       /\ new["metadata"]["created_at"] \in now..now'
                       /\ new["metadata"]["last_updated"] \in now..now'
      ]_vars

\* C21: initialize_user_schema(u, user_data) without a document of u writes one
\* in which every section user_data names, but metadata, is user_data's value
\* as a whole, and every other canonical section the default one; a metadata
\* that user_data names is written with last_updated set to the time of the
\* call and its other keys as given.
C21_SeedReplacesSectionsButLastUpdated ==
    [][(/\ last'.op = "initialize_user_schema"
        /\ NotFound(store, last'.user_id))
       => LET user_data == last'.arg
              new == Get(store', last'.user_id)
          IN  /\ DOMAIN new = Sections \cup DOMAIN user_data
              /\ \A k \in DOMAIN user_data \ {"metadata"} : new[k] = user_data[k]
              /\ \A k \in Sections \ (DOMAIN user_data \cup {"metadata"}) :
                    new[k] = default_schema(0, 0)[k]
              /\ new["metadata"]["last_updated"] \in now..now'
              /\ IF "metadata" \in DOMAIN user_data
                 THEN /\ DOMAIN new["metadata"]
                            = DOMAIN user_data["metadata"] \cup {"last_updated"}
                      /\ \A k \in DOMAIN user_data["metadata"] \ {"last_updated"} :
                            new["metadata"][k] = user_data["metadata"][k]
                 ELSE /\ new["metadata"]["version"] = 1
                      /\ new["metadata"]["created_at"] \in now..now'
      ]_vars

\* initialize_user_schema has written a document whose productivity_insights
\* is the one of user_data, without the default energy_levels and habit_streaks
C21_Witness ==
    /\ last.op = "initialize_user_schema"
    /\ last.n = 1
    /\ "productivity_insights" \in DOMAIN last.arg
    /\ DOMAIN LastDoc = Sections
    /\ DOMAIN LastDoc["productivity_insights"] = {"best_focus_times"}
    /\ LastDoc["personal_info"]
          = [name |-> "Shubham Dalvi", age |-> 28, domain |-> "Data Engineering"]
    /\ LastDoc["task_tracking"] = empty_task_tracking

(* ------------------------------ claim C22 ------------------------------ *)

\* the productivity_insights update_habit_streaks starts from: the section of
\* the document, the defaults when the document or the section is missing
InsightsBefore(s, uid) ==
    IF NotFound(s, uid) \/ "productivity_insights" \notin DOMAIN Get(s, uid)
    THEN default_productivity_insights
    ELSE Get(s, uid)["productivity_insights"]

\* the habit_streaks update_habit_streaks starts from
StreaksBefore(s, uid) ==
    DictGet(InsightsBefore(s, uid), "habit_streaks", default_habit_streaks)

\* C22: update_habit_streaks changes productivity_insights.habit_streaks and
\* metadata.last_updated only: every key of streaks has its new value, every
\* other streak key its old one, best_focus_times, energy_levels and every
\* other section are as before, and a missing productivity_insights or
\* habit_streaks is first filled with its defaults.
C22_OnlyHabitStreaks ==
    [][last'.op = "update_habit_streaks" /\ last'.n > last.n
       => LET uid == last'.user_id
              streaks == last'.arg
              old == IF NotFound(store, uid) THEN default_schema(now, now)
                     ELSE Get(store, uid)
              new == Get(store', uid)
              insights == InsightsBefore(store, uid)
              before == StreaksBefore(store, uid)
          IN  /\ DOMAIN new = DOMAIN old \cup {"productivity_insights", "metadata"}
              /\ \A section \in DOMAIN old \ {"productivity_insights", "metadata"} :
                    new[section] = old[section]
              /\ DOMAIN new["productivity_insights"]
                    = DOMAIN insights \cup {"habit_streaks"}
              /\ \A k \in DOMAIN insights \ {"habit_streaks"} :
                    new["productivity_insights"][k] = insights[k]
              /\ DOMAIN new["productivity_insights"]["habit_streaks"]
                    = DOMAIN before \cup DOMAIN streaks
              /\ \A k \in DOMAIN before \cup DOMAIN streaks :
                    new["productivity_insights"]["habit_streaks"][k]
                      = IF k \in DOMAIN streaks THEN streaks[k] ELSE before[k]
              /\ HasMetadata(store, uid)
                 => /\ DOMAIN new["metadata"] = DOMAIN old["metadata"]
                    /\ \A k \in DOMAIN old["metadata"] \ {"last_updated"} :
                          new["metadata"][k] = old["metadata"][k]
      ]_vars

\* update_habit_streaks has set a streak in insights that were seeded without
\* habit_streaks the call before
C22_Witness ==
    /\ last.op = "update_habit_streaks"
    /\ last.n = 2
    /\ ~NotFound(store, last.user_id)
    /\ LastDoc["productivity_insights"]
          = [best_focus_times |-> <<"10:00-12:00", "15:00-17:00">>,
             habit_streaks |-> [workout_streak_days |-> 5, task_completion_streak |-> 0]]

(* ------------------------------ claim C23 ------------------------------ *)

\* the section update_daily_routine and update_productivity_insights write to
SectionOfTool(op) ==
    IF op = "update_daily_routine" THEN "daily_routine" ELSE "productivity_insights"

\* the keys of the nested map k of uid's section in s, as the call meets it
\* (a missing document is initialized with the defaults first)
NestedKeysBefore(s, uid, section, k) ==
    LET doc == IF NotFound(s, uid) THEN default_schema(0, 0) ELSE Get(s, uid)
    IN  IF section \in DOMAIN doc /\ IsDict(doc[section])
           /\ k \in DOMAIN doc[section] /\ IsDict(doc[section][k])
        THEN DOMAIN doc[section][k]
        ELSE {}

\* C23: update_user_section merges one level deep only: a nested map given to
\* update_daily_routine or update_productivity_insights (meal_timings,
\* habit_streaks) replaces the nested map of the section as a whole, so the
\* nested keys the given map does not have are no longer in the section.
C23_NestedMapReplaced ==
    [][/\ last'.op \in {"update_daily_routine", "update_productivity_insights"}
       /\ last'.ok = "True"
       /\ last'.n > last.n
       => LET new == Get(store', last'.user_id)[SectionOfTool(last'.op)]
          IN  \A k \in DOMAIN last'.arg :
                DOMAIN last'.arg[k] # {}
                => /\ k \in DOMAIN new
                   /\ new[k] = last'.arg[k]
                   /\ \A nested \in NestedKeysBefore(store, last'.user_id,
                                                      SectionOfTool(last'.op), k) :
                         nested \notin DOMAIN last'.arg[k] => nested \notin DOMAIN new[k]
      ]_vars

\* update_daily_routine has left meal_timings without the lunch and dinner of
\* the default routine
C23_Witness ==
    /\ last.op = "update_daily_routine"
    /\ last.ok = "True"
    /\ ~NotFound(store, last.user_id)
    /\ LastDoc["daily_routine"]
          = [meal_timings |-> [breakfast |-> "08:00"],
             working_hours |-> [start |-> "", end |-> "", timezone |-> ""],
             workout_preferences |-> <<>>]

(* ------------------------------ claim C24 ------------------------------ *)

\* C24, as stated: a call issues two store calls at most, a get followed by
\* one upsert at most, also for a user without a document and for
\* add_habit_or_blocker.
C24_AtMostTwoRoundTrips == last.reads <= 1 /\ last.writes <= 1

\* C24, amended: on a document that exists a call issues one get and one
\* upsert at most, add_habit_or_blocker two gets and one upsert at most; for a
\* user without a document the calls that initialize it on the way
\* (update_user_section, _add_task, update_habit_streaks) issue three gets and
\* two upserts, add_habit_or_blocker four gets and two upserts, and every other
\* call one get and one upsert at most.
C24_RoundTripsCounted ==
    [][last'.n > last.n
       => LET missing == NotFound(store, last'.user_id)
              habit == last'.op = "add_habit_or_blocker"
              initializing == last'.op \in MutatingOps \ {"complete_task"}
          IN  /\ ~missing
                 => /\ last'.reads <= (IF habit THEN 2 ELSE 1)
                    /\ last'.writes <= 1
              /\ (missing /\ initializing /\ last'.reads > 0)
                 => /\ last'.reads = (IF habit THEN 4 ELSE 3)
                    /\ last'.writes = 2
              /\ (missing /\ ~initializing)
                 => /\ last'.reads <= 1
                    /\ last'.writes <= 1
      ]_vars

\* add_habit_or_blocker for a user without a document: four gets, two upserts
C24_Witness ==
    /\ last.op = "add_habit_or_blocker"
    /\ last.n = 1
    /\ last.reads = 4
    /\ last.writes = 2
    /\ ~NotFound(store, last.user_id)

(* ------------------------------ claim C25 ------------------------------ *)

C26_StatusMatchesList ==
    \A uid \in Users :
        /\ \A i \in DOMAIN CurrentOf(store, uid) :
              /\ CurrentOf(store, uid)[i]["status"] = "pending"
              /\ "completed_on" \notin DOMAIN CurrentOf(store, uid)[i]
        /\ \A i \in DOMAIN CompletedOf(store, uid) :
              /\ CompletedOf(store, uid)[i]["status"] = "completed"
              /\ "completed_on" \in DOMAIN CompletedOf(store, uid)[i]

\* an added task is pending in current_tasks next to a completed one
C26_Witness ==
    /\ last.op = "add_task"
    /\ Len(CurrentOf(store, last.user_id)) > 0
    /\ Len(CompletedOf(store, last.user_id)) > 0
    /\ CurrentOf(store, last.user_id)[1]["status"] = "pending"
    /\ CompletedOf(store, last.user_id)[1]["status"] = "completed"

(* ------------------------------ claim C27 ------------------------------ *)

\* C27: a tool function called while call_agent_async(user_id = A) is handled
\* reads and writes the document of A only, also when a call_agent_async for
\* another user is in flight on the same event loop.
C27_OwnDocumentOnly ==
    [][\A p \in Procs :
         (calls[p].pc = "tool" /\ calls' = calls)
         => /\ last'.user_id = RunUser[p]
            /\ \A uid \in {RunUser[q] : q \in Procs} \ {RunUser[p]} :
                  got(store', uid) = got(store, uid)
      ]_vars

====
